---------------------------- MODULE Spec2Model ----------------------------
(***************************************************************************)
(* Model of mininet/sixLoWPAN: the class-level radio allocator "module"    *)
(* (module.py) and the interface object IntfSixLoWPAN (link.py).           *)
(*                                                                         *)
(* Python strings are TLA+ strings; Len, SubSeq and \o apply to them.      *)
(* Python None is the model value None below.                              *)
(***************************************************************************)
EXTENDS Integers, Sequences, FiniteSets, TLC

None == "<None>"

(***************************************************************************)
(* String helpers: what str.startswith, grep's substring match, "%d" and   *)
(* "%02d" formatting, sorted() and list.sort(key=len) compute.             *)
(***************************************************************************)
Alphabet == "-./0123456789:ABCDEFGHIJKLMNOPQRSTUVWXYZ_abcdefghijklmnopqrstuvwxyz"

CharAt(s, i) == SubSeq(s, i, i)

Ord(c) == CHOOSE i \in 1..Len(Alphabet) : CharAt(Alphabet, i) = c

StartsWith(s, p) == Len(p) <= Len(s) /\ SubSeq(s, 1, Len(p)) = p

Contains(s, sub) ==
    \E i \in 1..(Len(s) - Len(sub) + 1) : SubSeq(s, i, i + Len(sub) - 1) = sub

RECURSIVE StrLess(_, _)
StrLess(a, b) ==
    IF Len(b) = 0 THEN FALSE
    ELSE IF Len(a) = 0 THEN TRUE
    ELSE IF CharAt(a, 1) = CharAt(b, 1)
         THEN StrLess(SubSeq(a, 2, Len(a)), SubSeq(b, 2, Len(b)))
         ELSE Ord(CharAt(a, 1)) < Ord(CharAt(b, 1))

Digit(d) == CharAt("0123456789", d + 1)

RECURSIVE Dec(_)
Dec(n) == IF n < 10 THEN Digit(n) ELSE Dec(n \div 10) \o Digit(n % 10)

Fmt02d(n) == IF Len(Dec(n)) < 2 THEN "0" \o Dec(n) ELSE Dec(n)

RECURSIVE InsertLex(_, _)
InsertLex(x, s) ==
    IF s = <<>> THEN <<x>>
    ELSE IF StrLess(x, Head(s)) THEN <<x>> \o s
    ELSE <<Head(s)>> \o InsertLex(x, Tail(s))

RECURSIVE SortAccLex(_, _)
SortAccLex(s, acc) ==
    IF s = <<>> THEN acc ELSE SortAccLex(Tail(s), InsertLex(Head(s), acc))

sorted(s) == SortAccLex(s, <<>>)

RECURSIVE InsertLen(_, _)
InsertLen(x, s) ==
    IF s = <<>> THEN <<x>>
    ELSE IF Len(x) < Len(Head(s)) THEN <<x>> \o s
    ELSE <<Head(s)>> \o InsertLen(x, Tail(s))

RECURSIVE SortAccLen(_, _)
SortAccLen(s, acc) ==
    IF s = <<>> THEN acc ELSE SortAccLen(Tail(s), InsertLen(Head(s), acc))

sortKeyLen(s) == SortAccLen(s, <<>>)

RECURSIVE SetToSeq(_)
SetToSeq(S) ==
    IF S = {} THEN <<>>
    ELSE LET x == CHOOSE y \in S : TRUE IN <<x>> \o SetToSeq(S \ {x})

Range(s) == {s[i] : i \in 1..Len(s)}

NoDup(s) == \A i, j \in 1..Len(s) : i # j => s[i] # s[j]


RECURSIVE AscSeq(_)
AscSeq(S) ==
    IF S = {} THEN <<>>
    ELSE LET m == CHOOSE x \in S : \A y \in S : x <= y
         IN <<m>> \o AscSeq(S \ {m})

Reverse(s) == [i \in 1..Len(s) |-> s[Len(s) + 1 - i]]

(***************************************************************************)
(* Bounds and input sets of the allocator model.                           *)
(***************************************************************************)
MaxCalls == 3

NodeNames == {"sta1", "sta2", "sta3", "ap1"}

\* isinstance(node, Station) or isinstance(node, Car) or 'inNamespace' in
\* node.params: true of the stations, false of the access point.
isolated(n) == n # "ap1"

\* node.params['wlan']: the interface names the node asks for, per slot.
wlanOf(n) ==
    CASE n = "sta1" -> <<"sta1-wpan0">>
      [] n = "sta2" -> <<"sta2-wpan0">>
      [] n = "sta3" -> <<"sta3-wpan0", "sta3-wpan1">>
      [] OTHER      -> <<"ap1-wpan0">>

NodeLists == { <<"sta1", "sta2">>, <<"sta3", "ap1", "sta1">>, <<"ap1">> }

RadioCounts == {0, 2, 11}

\* Names of mac80211_hwsim phys found under /sys/kernel/debug/ieee80211.
HwsimSets == { {}, {"mn00s00", "mn00s01", "phy0"} }

VARIABLES
    \* the kernel, as the allocator's shell commands see it
    loaded,         \* fakelb is loaded
    devName,        \* phy number -> interface name
    devNs,          \* phy number -> "root" or the node whose netns holds it
    \* class attributes of module
    wlan_list, wlans, prefix, externally_managed,
    devices_created_dynamically, phyID,
    \* node.phyID of every node: node -> (slot index -> id)
    nodePhyID,
    \* control: where the running call is, its arguments and locals
    pc, nodes, n_radios, alternativeModule, physIsWlanList, physArg,
    ni, wi, hwsimPhys, num, numokay,
    \* history
    calls, viaStart, loadLog, stopLog, runLog, idLog, origPool

allocVars == << loaded, devName, devNs, wlan_list, wlans, prefix,
                externally_managed, devices_created_dynamically, phyID,
                nodePhyID, pc, nodes, n_radios, alternativeModule,
                physIsWlanList, physArg, ni, wi, hwsimPhys, num, numokay,
                calls, viaStart, loadLog, stopLog, runLog, idLog, origPool >>

envVars == << loaded, devName, devNs >>
classVars == << wlan_list, wlans, prefix, externally_managed,
                devices_created_dynamically, phyID >>
hwsimLocals == << hwsimPhys, num, numokay >>
assignLocals == << nodes, physIsWlanList, physArg, ni, wi >>
startArgs == << n_radios, alternativeModule >>
histVars == << viaStart, loadLog, stopLog, runLog, idLog, origPool >>

\* the interface object of link.py and its node's namespace
VARIABLES
    intf,       \* the object's fields
    os,         \* its node's namespace: device name -> [up, mac, addrs]
    live,       \* "none": not constructed, "ok": constructed, "failed"
    issued,     \* the commands the last call ran on the node, in order
    lastCall,   \* the last call: [op, args]
    outcome,    \* the exception it raised, None when it returned
    retval      \* the value it returned

intfVars == << intf, os, live, issued, lastCall, outcome, retval >>

\* sixLoWPANLink of link.py and the namespaces of the nodes it works in
VARIABLES
    nsOf,       \* node -> its namespace: device name -> [up, mac, addrs, pan]
    lpos,       \* 0: no configIface is running; k: its k-th step is next
    lnode,      \* the node of the running (or last) configIface
    largs,      \* its arguments: [panid, intfName, addr, ip]
    lissued,    \* the commands it ran on the node, in order
    lexc,       \* the exception that ended the last call, None when none
    links,      \* the links whose construction returned, oldest first
    cls_intf1,  \* IntfSixLoWPAN.intf1, NoHandle while the attribute is not set
    cls_intf2,  \* IntfSixLoWPAN.intf2
    lcalls      \* configIface calls made

linkVars == << nsOf, lpos, lnode, largs, lissued, lexc, links, cls_intf1,
               cls_intf2, lcalls >>

(***************************************************************************)
(* The kernel side of the shell commands.                                  *)
(***************************************************************************)
\* fakelb with numlbs=n: n phys, phy i carrying interface wpan<i>.
Fleet(n) == [p \in 0..(n - 1) |-> "wpan" \o Dec(p)]

Phys == DOMAIN devNs

RootPhys == {p \in Phys : devNs[p] = "root"}

\* "iwpan dev": the root namespace's phys, in the kernel's listing order
\* (newest first, or oldest first).
IwpanDev(newestFirst) ==
    IF newestFirst THEN Reverse(AscSeq(RootPhys)) ELSE AscSeq(RootPhys)

\* "ip link set <old> name <new>" run inside namespace ns: renames the
\* device called old there, when there is one and the name new is free.
IpLinkSetName(names, nss, ns, old, new) ==
    IF /\ \E p \in DOMAIN nss : nss[p] = ns /\ names[p] = old
       /\ ~ \E p \in DOMAIN nss : nss[p] = ns /\ names[p] = new
    THEN [p \in DOMAIN nss |-> IF nss[p] = ns /\ names[p] = old
                               THEN new ELSE names[p]]
    ELSE names

AltModules == {"", "/tmp/fakelb.ko"}

InitFleets == {0, 3}

(***************************************************************************)
(* module.start, lines 128-148                                             *)
(***************************************************************************)
AllocInit ==
    /\ externally_managed \in BOOLEAN
    /\ \E n \in InitFleets :
          /\ loaded = (n > 0)
          /\ devName = Fleet(n)
          /\ devNs = [p \in 0..(n - 1) |-> "root"]
    /\ wlan_list = <<>>
    /\ wlans = <<>>
    /\ prefix = ""
    /\ devices_created_dynamically = FALSE
    /\ phyID = 0
    /\ nodePhyID = [n \in NodeNames |-> <<>>]
    /\ pc = "idle"
    /\ nodes = <<>>
    /\ n_radios = 0
    /\ alternativeModule = ""
    /\ physIsWlanList = TRUE
    /\ physArg = <<>>
    /\ ni = 1
    /\ wi = 1
    /\ hwsimPhys = <<>>
    /\ num = 0
    /\ numokay = FALSE
    /\ calls = 0
    /\ loadLog = <<>>
    /\ stopLog = <<>>
    /\ runLog = <<>>
    /\ idLog = <<>>
    /\ origPool = <<>>
    /\ viaStart = FALSE

\* start(nodes, n_radios, alternativeModule): the hostapd check changes
\* nothing the allocator keeps; control passes to load_module.
start(nodes_, n, alt) ==
    /\ pc = "idle"
    /\ calls < MaxCalls
    /\ calls' = calls + 1
    /\ pc' = "load"
    /\ nodes' = nodes_
    /\ n_radios' = n
    /\ alternativeModule' = alt
    /\ loadLog' = <<>>
    /\ viaStart' = TRUE
    /\ UNCHANGED << envVars, classVars, nodePhyID, physIsWlanList, physArg,
                    ni, wi, hwsimLocals, stopLog, runLog, idLog, origPool >>
    /\ UNCHANGED << intfVars, linkVars >>

(***************************************************************************)
(* module.load_module, lines 23-49                                         *)
(***************************************************************************)
\* os.system of a modprobe/insmod: a successful load of an unloaded fakelb
\* creates numlbs phys; anything else leaves the kernel as it is.
KernelLoad(numlbs, ok) ==
    IF ok /\ ~loaded
    THEN /\ loaded' = TRUE
         /\ devName' = Fleet(numlbs)
         /\ devNs' = [p \in 0..(numlbs - 1) |-> "root"]
    ELSE UNCHANGED envVars

\* insmod of a module that is already loaded fails.
LoadOutcomes(cmd) == IF cmd = "insmod" /\ loaded THEN {FALSE} ELSE BOOLEAN

load_module_first ==
    /\ pc = "load"
    /\ ~externally_managed
    /\ LET cmd == IF alternativeModule = "" THEN "modprobe" ELSE "insmod"
           numlbs == IF alternativeModule = "" THEN n_radios ELSE 0
       IN \E ok \in LoadOutcomes(cmd) :
             /\ KernelLoad(numlbs, ok)
             /\ loadLog' = Append(loadLog, [cmd |-> cmd, numlbs |-> numlbs,
                                            ok |-> ok])
             /\ pc' = IF ok THEN "hwsim" ELSE "load_retry"
    /\ UNCHANGED << classVars, nodePhyID, nodes, startArgs, physIsWlanList,
                    physArg, ni, wi, hwsimLocals, calls, viaStart, stopLog,
                    runLog, idLog, origPool >>
    /\ UNCHANGED << intfVars, linkVars >>

\* a retry with the radio count as it was given
SameRadios(n) == n

\* "if n_radios == 0: n_radios = 1", lines 40-41
RetryRadios(n) == IF n = 0 THEN 1 ELSE n

load_module_retry ==
    /\ pc = "load_retry"
    /\ LET cmd == IF alternativeModule = "" THEN "modprobe" ELSE "insmod"
           numlbs == RetryRadios(n_radios)
       IN /\ n_radios' = numlbs
          /\ \E ok \in LoadOutcomes(cmd) :
                /\ KernelLoad(numlbs, ok)
                /\ loadLog' = Append(loadLog, [cmd |-> cmd,
                                               numlbs |-> numlbs, ok |-> ok])
    /\ pc' = "get_wlan"
    /\ UNCHANGED << classVars, nodePhyID, nodes, alternativeModule,
                    physIsWlanList, physArg, ni, wi, hwsimLocals, calls,
                    viaStart, stopLog, runLog, idLog, origPool >>
    /\ UNCHANGED << intfVars, linkVars >>

load_module_external ==
    /\ pc = "load"
    /\ externally_managed
    /\ devices_created_dynamically' = TRUE
    /\ pc' = "hwsim"
    /\ UNCHANGED << envVars, wlan_list, wlans, prefix, externally_managed,
                    phyID, nodePhyID, nodes, startArgs, physIsWlanList,
                    physArg, ni, wi, hwsimLocals, calls, histVars >>
    /\ UNCHANGED << intfVars, linkVars >>

(***************************************************************************)
(* module.__create_hwsim_mgmt_devices, lines 51-67                         *)
(***************************************************************************)
\* "find ... -name hwsim | cut -d/ -f 6 | sort", decoded and split on "\n":
\* the sorted names, then the empty string after the last newline.
HwsimListing(names) == Append(sorted(SetToSeq(names)), "")

create_hwsim_enter(names) ==
    /\ pc = "hwsim"
    /\ hwsimPhys' = HwsimListing(names)
    /\ num' = 0
    /\ numokay' = FALSE
    /\ prefix' = ""
    /\ pc' = "hwsim_loop"
    /\ UNCHANGED << envVars, wlan_list, wlans, externally_managed,
                    devices_created_dynamically, phyID, nodePhyID, nodes,
                    startArgs, physIsWlanList, physArg, ni, wi, calls,
                    histVars >>
    /\ UNCHANGED << intfVars, linkVars >>

MnPrefix(n) == "mn" \o Fmt02d(n) \o "s"

\* a test that only counts a name equal to the prefix
PrefixEqual(phys, pfx) == \E i \in 1..Len(phys) : phys[i] = pfx

PrefixTaken(phys, pfx) == \E i \in 1..Len(phys) : StartsWith(phys[i], pfx)

NextNum(n) == n + 1

\* one pass of "while not numokay"
create_hwsim_iter ==
    /\ pc = "hwsim_loop"
    /\ ~numokay
    /\ prefix' = MnPrefix(num)
    /\ IF PrefixTaken(hwsimPhys, prefix')
       THEN num' = NextNum(num) /\ numokay' = FALSE
       ELSE num' = num /\ numokay' = TRUE
    /\ UNCHANGED << envVars, wlan_list, wlans, externally_managed,
                    devices_created_dynamically, phyID, nodePhyID, pc, nodes,
                    startArgs, physIsWlanList, physArg, ni, wi, hwsimPhys,
                    calls, histVars >>
    /\ UNCHANGED << intfVars, linkVars >>

\* the loop has ended; the locals go out of scope and load_module returns
create_hwsim_return ==
    /\ pc = "hwsim_loop"
    /\ numokay
    /\ hwsimPhys' = <<>>
    /\ num' = 0
    /\ numokay' = FALSE
    /\ pc' = "get_wlan"
    /\ UNCHANGED << envVars, classVars, nodePhyID, nodes, startArgs,
                    physIsWlanList, physArg, ni, wi, calls, histVars >>
    /\ UNCHANGED << intfVars, linkVars >>

(***************************************************************************)
(* module.get_virtual_wlan, lines 150-160                                  *)
(***************************************************************************)
\* "iwpan dev 2>&1 | grep Interface | awk '{print $2}'" split on "\n": the
\* listed names, then the empty string after the last newline.
IwpanDevOutput(newestFirst) ==
    Append([i \in 1..Len(IwpanDev(newestFirst)) |->
              devName[IwpanDev(newestFirst)[i]]], "")

\* list.pop(): the list without its last element
pop(s) == SubSeq(s, 1, Len(s) - 1)

\* the lexicographic sort alone
SortLexOnly(s) == sorted(s)

SortWlans(s) == sortKeyLen(sorted(s))

get_virtual_wlan ==
    /\ pc = "get_wlan"
    /\ \E newestFirst \in BOOLEAN :
          /\ wlans' = pop(IwpanDevOutput(newestFirst))
          /\ wlan_list' = SortWlans(wlans')
    \* start passes the returned list, which is cls.wlan_list itself
    /\ physIsWlanList' = TRUE
    /\ physArg' = <<>>
    /\ ni' = 1
    /\ wi' = 1
    /\ runLog' = <<>>
    /\ origPool' = wlan_list'
    /\ pc' = "assign"
    /\ UNCHANGED << envVars, prefix, externally_managed,
                    devices_created_dynamically, phyID, nodePhyID, nodes,
                    startArgs, hwsimLocals, calls, viaStart, loadLog, stopLog,
                    idLog >>
    /\ UNCHANGED << intfVars, linkVars >>

(***************************************************************************)
(* module.getPhy, lines 162-169                                            *)
(***************************************************************************)
\* "iwpan dev | grep -B 1 <wlan> | sed -ne '1 s/phy#.../p'": the phy line
\* above the first listed Interface line that contains wlan; with no such
\* line the output is empty and phy[0] raises IndexError.
\* The value is the list phy after phy.pop(): empty, or the phy number.
getPhy(wlan, newestFirst) ==
    LET hits == SelectSeq(IwpanDev(newestFirst),
                          LAMBDA p : Contains(devName[p], wlan))
    IN IF hits = <<>> THEN <<>> ELSE <<hits[1]>>

(***************************************************************************)
(* module.assign_iface, lines 180-218                                      *)
(***************************************************************************)
\* a direct call of assign_iface(nodes, phys): phys is either the class's
\* own wlan_list or a list of the caller's
assign_iface(nodes_, ownList, phys) ==
    /\ pc = "idle"
    /\ calls < MaxCalls
    /\ calls' = calls + 1
    /\ nodes' = nodes_
    /\ physIsWlanList' = ownList
    /\ physArg' = IF ownList THEN <<>> ELSE phys
    /\ ni' = 1
    /\ wi' = 1
    /\ runLog' = <<>>
    /\ origPool' = wlan_list
    /\ viaStart' = FALSE
    /\ pc' = "assign"
    /\ UNCHANGED << envVars, classVars, nodePhyID, startArgs, hwsimLocals,
                    loadLog, stopLog, idLog >>
    /\ UNCHANGED << intfVars, linkVars >>

InNodeLoop == pc = "assign" /\ ni <= Len(nodes)

SlotPending == InNodeLoop /\ isolated(nodes[ni]) /\ wi <= Len(wlanOf(nodes[ni]))

\* "for node in nodes": a node that is not isolated is skipped, a node whose
\* slots are done is left
assign_next_node ==
    /\ InNodeLoop
    /\ ~SlotPending
    /\ ni' = ni + 1
    /\ wi' = 1
    /\ UNCHANGED << envVars, classVars, nodePhyID, pc, nodes, startArgs,
                    physIsWlanList, physArg, hwsimLocals, calls, histVars >>
    /\ UNCHANGED << intfVars, linkVars >>

\* the phys that carry the pool's head name in the root namespace
HeadPhys == {p \in RootPhys : devName[p] = wlan_list[1]}

physList == IF physIsWlanList THEN wlan_list ELSE physArg

\* a counter that stays where it is
KeepPhyID(id) == id

NextPhyID(id) == id + 1

\* a pool that keeps its head
PoolKept(pool) == pool

\* a pool that loses its last entry
PoolPopLast(pool) == SubSeq(pool, 1, Len(pool) - 1)

PoolAfterSlot(pool) == Tail(pool)

\* an except clause that lets assign_iface return
ExceptReturn == "idle"

\* the except clause, lines 213-218: log, and exit(1)
ExceptExit == "exited"

\* the body of "for wlan in range(0, len(node.params['wlan']))" for one
\* slot, with the except clause: any exception ends the process (exit(1))
assign_slot ==
    /\ SlotPending
    /\ LET node == nodes[ni]
       IN /\ nodePhyID' = [nodePhyID EXCEPT ![node] =
                               [w \in DOMAIN @ \cup {wi} |->
                                   IF w = wi THEN phyID ELSE @[w]]]
          /\ idLog' = Append(idLog, phyID)
          /\ phyID' = NextPhyID(phyID)
          /\ \E newestFirst \in BOOLEAN :
               LET found == IF physList = <<>> THEN <<>>
                            ELSE getPhy(physList[1], newestFirst)
                   phy == found[1]
               IN IF found = <<>>
                  THEN \* phys[0] or phy[0] raised IndexError
                       /\ pc' = ExceptExit
                       /\ UNCHANGED << envVars, wlan_list, runLog, wi >>
                  ELSE \* iwpan phy phy<phy> set netns <node.pid>
                       /\ devNs' = [devNs EXCEPT ![phy] = node]
                       /\ loaded' = loaded
                       /\ IF wlan_list = <<>>
                          THEN \* cls.wlan_list[0] raised
                               /\ pc' = ExceptExit
                               /\ UNCHANGED << devName, wlan_list, runLog, wi >>
                          ELSE /\ devName' = IpLinkSetName(devName, devNs',
                                                node, wlan_list[1],
                                                wlanOf(node)[wi])
                               /\ wlan_list' = PoolAfterSlot(wlan_list)
                               /\ runLog' = Append(runLog,
                                     [node |-> node, slot |-> wi,
                                      id |-> phyID, phy |-> phy,
                                      dev |-> wlan_list[1],
                                      head |-> HeadPhys])
                               /\ wi' = wi + 1
                               /\ pc' = pc
    /\ UNCHANGED << wlans, prefix, externally_managed,
                    devices_created_dynamically, nodes, startArgs,
                    physIsWlanList, physArg, ni, hwsimLocals, calls, viaStart,
                    loadLog, stopLog, origPool >>
    /\ UNCHANGED << intfVars, linkVars >>

\* the loops are over: assign_iface (and start, when it called) returns
assign_return ==
    /\ pc = "assign"
    /\ ni > Len(nodes)
    /\ pc' = "idle"
    /\ nodes' = <<>>
    /\ physIsWlanList' = TRUE
    /\ physArg' = <<>>
    /\ ni' = 1
    /\ wi' = 1
    /\ runLog' = <<>>
    /\ loadLog' = <<>>
    /\ origPool' = <<>>
    /\ viaStart' = FALSE
    /\ n_radios' = 0
    /\ alternativeModule' = ""
    /\ UNCHANGED << envVars, classVars, nodePhyID, hwsimLocals, calls,
                    stopLog, idLog >>
    /\ UNCHANGED << intfVars, linkVars >>

(***************************************************************************)
(* module.stop and module.kill_fakelb, lines 88-126                        *)
(***************************************************************************)
stop ==
    /\ pc = "idle"
    /\ calls < MaxCalls
    /\ calls' = calls + 1
    /\ stopLog' = <<>>
    /\ pc' = "stop_conf"
    /\ UNCHANGED << envVars, classVars, nodePhyID, nodes, startArgs,
                    physIsWlanList, physArg, ni, wi, hwsimLocals, viaStart,
                    loadLog, runLog, idLog, origPool >>
    /\ UNCHANGED << intfVars, linkVars >>

\* a step whose failure reaches the caller of stop
StopStepRaises(from, tag, to) ==
    /\ pc = from
    /\ stopLog' = Append(stopLog, tag)
    /\ pc' = "idle"
    /\ UNCHANGED << envVars, classVars, nodePhyID, nodes, startArgs,
                    physIsWlanList, physArg, ni, wi, hwsimLocals, calls,
                    viaStart, loadLog, runLog, idLog, origPool >>
    /\ UNCHANGED << intfVars, linkVars >>

StopStep(from, tag, to) ==
    /\ pc = from
    /\ stopLog' = Append(stopLog, tag)
    /\ pc' = to
    /\ UNCHANGED << envVars, classVars, nodePhyID, nodes, startArgs,
                    physIsWlanList, physArg, ni, wi, hwsimLocals, calls,
                    viaStart, loadLog, runLog, idLog, origPool >>
    /\ UNCHANGED << intfVars, linkVars >>

\* the four glob/rm pairs: os.system raises nothing whatever rm returns
stop_remove_conf == \E rmFailed \in BOOLEAN : StopStep("stop_conf", "rm_conf", "stop_ifb")

\* try: check_output("lsmod | grep ifb"); os.system('rmmod ifb') except: pass
stop_rmmod_ifb ==
    \E ifbLoaded \in BOOLEAN :
       StopStep("stop_ifb", IF ifbLoaded THEN "rmmod_ifb" ELSE "no_ifb",
                "stop_wpa_c")

\* try: os.system("pkill -f 'wpa_supplicant -B -Dnl80211 -c...'") except: pass
stop_pkill_conf == \E killed \in BOOLEAN : StopStep("stop_wpa_c", "pkill_c", "stop_wpa_p")

\* try: os.system("pkill -f 'wpa_supplicant -B -Dnl80211 -P ...'") except: pass
stop_pkill_pid == \E killed \in BOOLEAN : StopStep("stop_wpa_p", "pkill_p", "kill_fakelb")

\* kill_fakelb: os.system('rmmod fakelb'); an rmmod that succeeds removes
\* every phy of the module, in whatever namespace it is
kill_fakelb ==
    /\ pc = "kill_fakelb"
    /\ \E ok \in (IF loaded THEN BOOLEAN ELSE {FALSE}) :
          IF ok
          THEN /\ loaded' = FALSE
               /\ devName' = <<>>
               /\ devNs' = <<>>
          ELSE UNCHANGED envVars
    /\ stopLog' = Append(stopLog, "rmmod_fakelb")
    /\ pc' = "idle"
    /\ UNCHANGED << classVars, nodePhyID, nodes, startArgs, physIsWlanList,
                    physArg, ni, wi, hwsimLocals, calls, viaStart, loadLog,
                    runLog, idLog, origPool >>
    /\ UNCHANGED << intfVars, linkVars >>

(***************************************************************************)
(*                     link.py: class IntfSixLoWPAN                        *)
(*                                                                         *)
(* Python values are strings here: None is None above, True and False are  *)
(* "True" and "False", the int n is PyInt(n), a str is itself.             *)
(***************************************************************************)
PyInt(n) == "int:" \o Dec(n)

IsPyInt(v) == StartsWith(v, "int:")

\* '%s' % v
Str(v) == IF IsPyInt(v) THEN SubSeq(v, 5, Len(v)) ELSE v

\* str.split(sep), sep one character
RECURSIVE SplitFrom(_, _, _)
SplitFrom(str, sep, from) ==
    LET hits == {i \in from..Len(str) : CharAt(str, i) = sep}
    IN IF hits = {} THEN << SubSeq(str, from, Len(str)) >>
       ELSE LET i == CHOOSE x \in hits : \A y \in hits : x <= y
            IN << SubSeq(str, from, i - 1) >> \o SplitFrom(str, sep, i + 1)

split(str, sep) == SplitFrom(str, sep, 1)

IsDigit(c) == Len(c) = 1 /\ Contains("0123456789", c)

\* end of the longest run of digits of text that starts at i (i - 1: none)
RECURSIVE DigitsEnd(_, _)
DigitsEnd(text, i) ==
    IF i <= Len(text) /\ IsDigit(CharAt(text, i))
    THEN DigitsEnd(text, i + 1) ELSE i - 1

\* end of a match of \d+(\.\d+){k} that starts at i, 0 when there is none
RECURSIVE QuadEnd(_, _, _)
QuadEnd(text, i, k) ==
    LET e == DigitsEnd(text, i)
    IN IF e < i THEN 0
       ELSE IF k = 0 THEN e
       ELSE IF e + 1 <= Len(text) /\ CharAt(text, e + 1) = "."
            THEN QuadEnd(text, e + 2, k - 1)
            ELSE 0

\* _ipMatchRegex.findall(text), r'\d+\.\d+\.\d+\.\d+'
RECURSIVE IpFindAllFrom(_, _)
IpFindAllFrom(text, from) ==
    LET starts == {i \in from..Len(text) : QuadEnd(text, i, 3) > 0}
    IN IF starts = {} THEN <<>>
       ELSE LET i == CHOOSE x \in starts : \A y \in starts : x <= y
                e == QuadEnd(text, i, 3)
            IN << SubSeq(text, i, e) >> \o IpFindAllFrom(text, e + 1)

ipFindall(text) == IpFindAllFrom(text, 1)

MacAt(text, i) ==
    /\ i + 16 <= Len(text)
    /\ \A k \in {2, 5, 8, 11, 14} : CharAt(text, i + k) = ":"

\* _macMatchRegex.findall(text), r'..:..:..:..:..:..'
RECURSIVE MacFindAllFrom(_, _)
MacFindAllFrom(text, from) ==
    LET starts == {i \in from..Len(text) : MacAt(text, i)}
    IN IF starts = {} THEN <<>>
       ELSE LET i == CHOOSE x \in starts : \A y \in starts : x <= y
            IN << SubSeq(text, i, i + 16) >> \o MacFindAllFrom(text, i + 17)

macFindall(text) == MacFindAllFrom(text, 1)

(***************************************************************************)
(* The owning node's namespace, as the interface's commands see it:        *)
(* device name -> [up, mac, addrs].                                        *)
(***************************************************************************)
RECURSIVE JoinAddrs(_)
JoinAddrs(as) ==
    IF as = <<>> THEN "" ELSE " inet6 " \o Head(as) \o JoinAddrs(Tail(as))

\* what "ip addr show <dev>" prints
ShowText(netns, dev) ==
    IF dev \notin DOMAIN netns THEN "Device does not exist"
    ELSE dev \o ": <" \o (IF netns[dev].up THEN "UP" ELSE "") \o "> link "
         \o netns[dev].mac \o JoinAddrs(netns[dev].addrs)

\* ip -6 addr add takes an IPv6 address with an optional numeric prefix
Inet6Prefix(a) ==
    LET parts == split(a, "/")
    IN /\ Contains(parts[1], ":")
       /\ Len(parts) <= 2
       /\ Len(parts) = 2 =>
             /\ Len(parts[2]) > 0
             /\ \A i \in 1..Len(parts[2]) : IsDigit(CharAt(parts[2], i))

\* a command is a tuple of words; its effect on the namespace
\* the device a command names: the last word of "ip -6 addr add <a> dev
\* <name>", the second word of the others
CmdDev(c) == IF c[1] = "ip -6 addr add" THEN c[4] ELSE c[2]

OsApply(netns, c) ==
    LET dev == CmdDev(c)
    IN IF c[1] = "ip addr show" \/ dev \notin DOMAIN netns THEN netns
       ELSE IF c[1] = "ip addr flush" THEN [netns EXCEPT ![dev].addrs = <<>>]
       ELSE IF c[1] = "ip -6 addr add"
            THEN IF Inet6Prefix(c[2]) /\ c[2] \notin Range(netns[dev].addrs)
                 THEN [netns EXCEPT ![dev].addrs = Append(@, c[2])]
                 ELSE netns
       ELSE IF c[3] = "up" THEN [netns EXCEPT ![dev].up = TRUE]
       ELSE IF c[3] = "down" THEN [netns EXCEPT ![dev].up = FALSE]
       ELSE IF c[3] = "address" THEN [netns EXCEPT ![dev].mac = c[4]]
       ELSE \* c[3] = "name"
            IF c[4] \in DOMAIN netns \/ netns[dev].up THEN netns
            ELSE [d \in (DOMAIN netns \ {dev}) \cup {c[4]} |->
                     IF d = c[4] THEN netns[dev] ELSE netns[d]]

\* its output: empty on success, the error text otherwise
OsOutput(netns, c) ==
    IF c[1] = "ip addr show" THEN ShowText(netns, c[2])
    ELSE IF CmdDev(c) \notin DOMAIN netns THEN "Cannot find device"
    ELSE IF c[1] = "ip -6 addr add"
         THEN IF ~Inet6Prefix(c[2]) THEN "Error: inet6 prefix is expected"
              ELSE IF c[2] \in Range(netns[c[4]].addrs) THEN "File exists"
              ELSE ""
    ELSE IF c[1] = "ip link set" /\ c[3] = "name" /\ c[4] # c[2]
            /\ (c[4] \in DOMAIN netns \/ netns[c[2]].up)
         THEN "RTNETLINK answers"
    ELSE ""

(***************************************************************************)
(* A method works on s = [intf, os, issued] and yields [s, exc, ret]: the  *)
(* state it leaves, the exception it raised (None: it returned) and the    *)
(* value it returned.                                                      *)
(***************************************************************************)
Ok(s, ret) == [s |-> s, exc |-> None, ret |-> ret]

\* F applied to the value of v, v evaluated once
Bind(v, F(_)) == CHOOSE r \in {F(x) : x \in {v}} : TRUE

\* q, and then F of what q yields unless q raised
Then(q, F(_)) ==
    CHOOSE r \in {IF x.exc # None THEN x ELSE F(x) : x \in {q}} : TRUE

Raise(s, e) == [s |-> s, exc |-> e, ret |-> None]

\* cmd, lines 39-41: self.node.cmd(...)
cmd(s, c) ==
    IF s.intf.node = None THEN Raise(s, "AttributeError")
    ELSE Ok([s EXCEPT !.os = OsApply(s.os, c), !.issued = Append(@, c)],
            OsOutput(s.os, c))

\* an ipAddr that adds without flushing
IpAddrNoFlush(s, args) ==
    IF Len(args) = 0 THEN cmd(s, <<"ip addr show", s.intf.name>>)
    ELSE cmd(s, <<"ip -6 addr add", args[1], "dev", s.intf.name>>)

\* ipAddr, lines 43-49
ipAddr(s, args) ==
    IF Len(args) = 0 THEN cmd(s, <<"ip addr show", s.intf.name>>)
    ELSE Then(cmd(s, <<"ip addr flush", s.intf.name>>),
              LAMBDA flush : cmd(flush.s, <<"ip -6 addr add", args[1], "dev",
                                            s.intf.name>>))

\* ipLink, lines 51-53
ipLink(s, args) == cmd(s, <<"ip link set", s.intf.name>> \o args)

\* a setIP that takes an address without a prefix length
SetIPNoCheck(s, ipstr, prefixLen) ==
    IF ipstr = None THEN Raise(s, "TypeError")
    ELSE IF Contains(ipstr, "/")
         THEN LET parts == split(ipstr, "/")
              IN IF Len(parts) # 2 THEN Raise(s, "ValueError")
                 ELSE ipAddr([s EXCEPT !.intf.ip = parts[1],
                                       !.intf.prefixLen = parts[2]],
                             <<ipstr>>)
         ELSE ipAddr([s EXCEPT !.intf.ip = ipstr,
                               !.intf.prefixLen = prefixLen],
                     << ipstr \o "/" \o Str(prefixLen) >>)

\* an explicit prefix length that overrides the one in the string
SetIPExplicitWins(s, ipstr, prefixLen) ==
    IF ipstr = None THEN Raise(s, "TypeError")
    ELSE IF Contains(ipstr, "/")
         THEN LET parts == split(ipstr, "/")
              IN IF Len(parts) # 2 THEN Raise(s, "ValueError")
                 ELSE ipAddr([s EXCEPT !.intf.ip = parts[1],
                                       !.intf.prefixLen =
                                          IF prefixLen = None THEN parts[2]
                                          ELSE prefixLen],
                             <<ipstr>>)
         ELSE IF prefixLen = None THEN Raise(s, "Exception")
              ELSE ipAddr([s EXCEPT !.intf.ip = ipstr,
                                    !.intf.prefixLen = prefixLen],
                          << ipstr \o "/" \o Str(prefixLen) >>)

\* setIP, lines 55-67; '/' in None raises TypeError, and unpacking a split
\* of other than two parts raises ValueError before anything is assigned
setIP(s, ipstr, prefixLen) ==
    IF ipstr = None THEN Raise(s, "TypeError")
    ELSE IF Contains(ipstr, "/")
         THEN LET parts == split(ipstr, "/")
              IN IF Len(parts) # 2 THEN Raise(s, "ValueError")
                 ELSE ipAddr([s EXCEPT !.intf.ip = parts[1],
                                       !.intf.prefixLen = parts[2]],
                             <<ipstr>>)
         ELSE IF prefixLen = None THEN Raise(s, "Exception")
              ELSE ipAddr([s EXCEPT !.intf.ip = ipstr,
                                    !.intf.prefixLen = prefixLen],
                          << ipstr \o "/" \o Str(prefixLen) >>)

\* setMAC, lines 69-75
setMAC(s, macstr) ==
    Then(ipLink([s EXCEPT !.intf.mac = macstr], <<"down">>), LAMBDA a :
    Then(ipLink(a.s, <<"address", macstr>>), LAMBDA b :
    Then(ipLink(b.s, <<"up">>), LAMBDA c :
    Ok(c.s, a.ret \o b.ret \o c.ret))))

\* first element of a findall result, or None
FirstOrNone(l) == IF l = <<>> THEN None ELSE l[1]

\* updateIP, lines 80-88; node.pexec runs the same "ip addr show"
updateIP(s) ==
    Then(cmd(s, <<"ip addr show", s.intf.name>>), LAMBDA q :
    Bind(FirstOrNone(ipFindall(q.ret)), LAMBDA v :
    Ok([q.s EXCEPT !.intf.ip = v], v)))

\* updateMAC, lines 90-95
updateMAC(s) ==
    Then(ipAddr(s, <<>>), LAMBDA q :
    Bind(FirstOrNone(macFindall(q.ret)), LAMBDA v :
    Ok([q.s EXCEPT !.intf.mac = v], v)))

\* updateAddr, lines 101-108
updateAddr(s) ==
    Then(ipAddr(s, <<>>), LAMBDA q :
    Bind(FirstOrNone(ipFindall(q.ret)), LAMBDA i :
    Bind(FirstOrNone(macFindall(q.ret)), LAMBDA m :
    Ok([q.s EXCEPT !.intf.ip = i, !.intf.mac = m], <<i, m>>))))

PyBool(b) == IF b THEN "True" ELSE "False"

\* isUp, lines 118-129
isUp(s, setUp) ==
    IF setUp = "True"
    THEN Then(ipLink(s, <<"up">>), LAMBDA q : Ok(q.s, PyBool(q.ret = "")))
    ELSE Then(ipAddr(s, <<>>),
              LAMBDA q : Ok(q.s, PyBool(Contains(q.ret, "UP"))))

\* a rename that forgets the address
RenameResetsAddr(s, newname) ==
    Then(ipLink(s, <<"down">>), LAMBDA a :
    Then(cmd(a.s, <<"ip link set", s.intf.name, "name", newname>>), LAMBDA b :
    Then(ipLink([b.s EXCEPT !.intf.name = newname, !.intf.ip = None,
                            !.intf.prefixLen = None], <<"up">>), LAMBDA c :
    Ok(c.s, b.ret))))

\* rename, lines 131-137
rename(s, newname) ==
    Then(ipLink(s, <<"down">>), LAMBDA a :
    Then(cmd(a.s, <<"ip link set", s.intf.name, "name", newname>>), LAMBDA b :
    Then(ipLink([b.s EXCEPT !.intf.name = newname], <<"up">>), LAMBDA c :
    Ok(c.s, b.ret))))

\* f( value ) for the method named in setParam
CallMethod(s, method, value) ==
    CASE method = "setMAC" -> setMAC(s, value)
      [] method = "setIP"  -> setIP(s, value, None)
      [] method = "isUp"   -> isUp(s, value)
      [] OTHER             -> ipAddr(s, <<value>>)

\* setParam, lines 145-162; results is the dict r, a sequence of
\* <<key, value>> in insertion order, carried as the value ret.
setParam(s, results, method, pname, value) ==
    IF value = None THEN Ok(s, results)
    ELSE Then(CallMethod(s, method, value),
              LAMBDA q : Ok(q.s, Append(results, <<pname, q.ret>>)))

\* a config that brings the link up before it sets the MAC
ConfigUpFirst(s, mac_, ip_, ipAddr_, up_) ==
    Then(setIP(s, ip_, None), LAMBDA p0 :
    Then(setParam(p0.s, <<>>, "isUp", "up", up_), LAMBDA p1 :
    Then(setParam(p1.s, p1.ret, "setMAC", "mac", mac_), LAMBDA p2 :
    Then(setParam(p2.s, p2.ret, "setIP", "ip", ip_), LAMBDA p3 :
    setParam(p3.s, p3.ret, "ipAddr", "ipAddr", ipAddr_)))))

\* config, lines 164-182
config(s, mac_, ip_, ipAddr_, up_) ==
    Then(setIP(s, ip_, None), LAMBDA p0 :
    Then(setParam(p0.s, <<>>, "setMAC", "mac", mac_), LAMBDA p1 :
    Then(setParam(p1.s, p1.ret, "setIP", "ip", ip_), LAMBDA p2 :
    Then(setParam(p2.s, p2.ret, "isUp", "up", up_), LAMBDA p3 :
    setParam(p3.s, p3.ret, "ipAddr", "ipAddr", ipAddr_)))))

\* __init__, lines 11-37: mac is a parameter of its own, so config(**params)
\* gets none; node.addIntf is the node's bookkeeping
construct(os0, name_, node_, mac_, ip_, ipAddr_, up_) ==
    LET lo == name_ = "lo"
        obj == [node |-> node_, name |-> name_, link |-> None, mac |-> mac_,
                ip |-> IF lo THEN "127.0.0.1" ELSE None,
                prefixLen |-> IF lo THEN PyInt(8) ELSE None]
    IN config([intf |-> obj, os |-> os0, issued |-> <<>>],
              None, ip_, ipAddr_, up_)

(***************************************************************************)
(* One interface object and the calls made on it.                          *)
(***************************************************************************)
\* rename is called with the handle's own name or with a name not in use
RenameTargets == {intf.name, "eth0"}

Macs == {"00:00:00:00:00:01"}

IpStrs == {"10.0.0.1/24", "10.0.0.1", "10.0.0.1/", "2001::1/64", "2001::2",
           "::1.2.3.4/96", "1/2/3"}

PrefixLens == {None, "24", "", PyInt(8)}

UpValues == {None, "True", "False"}

IntfInit ==
    /\ intf = [node |-> None, name |-> None, link |-> None, mac |-> None,
               ip |-> None, prefixLen |-> None]
    /\ os = [d \in {"lo", "sta1-lowpan"} |->
               [up |-> FALSE, mac |-> "00:00:00:00:00:00", addrs |-> <<>>]]
    /\ live = "none"
    /\ issued = <<>>
    /\ lastCall = [op |-> None, args |-> <<>>]
    /\ outcome = None
    /\ retval = None

\* the state a call starts from
Self == [intf |-> intf, os |-> os, issued |-> <<>>]

Finish(q, op, args) ==
    /\ intf' = q.s.intf
    /\ os' = q.s.os
    /\ issued' = q.s.issued
    /\ outcome' = q.exc
    /\ retval' = q.ret
    /\ lastCall' = [op |-> op, args |-> args]
    /\ UNCHANGED << allocVars, linkVars >>

Construct(name_, node_, mac_, ip_, ipAddr_, up_) ==
    /\ live = "none"
    /\ \E q \in {construct(os, name_, node_, mac_, ip_, ipAddr_, up_)} :
          /\ Finish(q, "construct", <<name_, node_, mac_, ip_, ipAddr_, up_>>)
          /\ live' = IF q.exc = None THEN "ok" ELSE "failed"

Call(result, op, args) ==
    /\ live = "ok"
    /\ \E q \in {result} : Finish(q, op, args)
    /\ live' = live

CallSetIP(ipstr, prefixLen_) ==
    Call(setIP(Self, ipstr, prefixLen_), "setIP", <<ipstr, prefixLen_>>)

CallSetMAC(macstr) == Call(setMAC(Self, macstr), "setMAC", <<macstr>>)

CallUpdateIP == Call(updateIP(Self), "updateIP", <<>>)

CallUpdateMAC == Call(updateMAC(Self), "updateMAC", <<>>)

CallUpdateAddr == Call(updateAddr(Self), "updateAddr", <<>>)

CallIsUp(setUp) == Call(isUp(Self, setUp), "isUp", <<setUp>>)

CallRename(newname) == Call(rename(Self, newname), "rename", <<newname>>)

CallIpAddr(arg) == Call(ipAddr(Self, <<arg>>), "ipAddr", <<arg>>)

CallConfig(mac_, ip_, ipAddr_, up_) ==
    Call(config(Self, mac_, ip_, ipAddr_, up_), "config",
         <<mac_, ip_, ipAddr_, up_>>)

IntfNext ==
    \/ \E n \in {"lo", "sta1-lowpan"}, nd \in {None, "sta1"},
          m \in Macs \cup {None}, i \in IpStrs \cup {None},
          u \in UpValues :
          Construct(n, nd, m, i, None, u)
    \/ \E i \in IpStrs, pl \in PrefixLens : CallSetIP(i, pl)
    \/ \E m \in Macs : CallSetMAC(m)
    \/ CallUpdateIP
    \/ CallUpdateMAC
    \/ CallUpdateAddr
    \/ \E u \in {"True", "False"} : CallIsUp(u)
    \/ \E n \in RenameTargets : CallRename(n)
    \/ \E a \in {"2001::2/64"} : CallIpAddr(a)
    \/ \E m \in Macs \cup {None}, i \in {None, "2001::1/64"},
          a \in {None, "2001::2/64"}, u \in UpValues :
          CallConfig(m, i, a, u)


(***************************************************************************)
(*                     link.py: class sixLoWPANLink                        *)
(***************************************************************************)
MaxLinkCalls == 3

LinkNodes == {"sta1", "sta2"}

\* node.params['wlan'][0]
Radio(n) == wlanOf(n)[1]

\* '%s-lowpan' % node.name
LowpanName(n) == n \o "-lowpan"

\* the node's namespace before any link: lo, and the radio that
\* assign_iface left there (down), or one that was brought up since, or
\* none when the assignment did not deliver it
NsInit(n, radio) ==
    [d \in {"lo"} \cup (IF radio = "none" THEN {} ELSE {Radio(n)}) |->
        [up |-> (d # "lo" /\ radio = "up"), mac |-> "00:00:00:00:00:00",
         addrs |-> <<>>, pan |-> None]]

RadioStates == {"down", "up", "none"}

DefaultRadios == [n \in LinkNodes |-> "down"]

\* the class IntfSixLoWPAN has no attribute intf1 until line 244 sets it
NoHandle == [node |-> None, name |-> None, link |-> None, mac |-> None,
             ip |-> None, prefixLen |-> None]

LinkInit(radios) ==
    /\ nsOf = [n \in LinkNodes |-> NsInit(n, radios[n])]
    /\ lpos = 0
    /\ lnode = None
    /\ largs = [panid |-> None, intfName |-> None, addr |-> None, ip |-> None]
    /\ lissued = <<>>
    /\ lexc = None
    /\ links = <<>>
    /\ cls_intf1 = NoHandle
    /\ cls_intf2 = None
    /\ lcalls = 0

\* what a command of configIface does to the namespace: "iwpan dev <w> set
\* pan_id" is refused on an interface that is up, "ip link add link <w>
\* name <l> type lowpan" needs w and a free name; the rest is OsApply
LinkApply(netns, c) ==
    IF c[1] = "iwpan dev"
    THEN IF c[2] \in DOMAIN netns /\ ~netns[c[2]].up
         THEN [netns EXCEPT ![c[2]].pan = c[4]] ELSE netns
    ELSE IF c[1] = "ip link add link"
    THEN IF c[2] \in DOMAIN netns /\ c[4] \notin DOMAIN netns
         THEN [d \in DOMAIN netns \cup {c[4]} |->
                 IF d = c[4]
                 THEN [up |-> FALSE, mac |-> netns[c[2]].mac, addrs |-> <<>>,
                       pan |-> None]
                 ELSE netns[d]]
         ELSE netns
    ELSE OsApply(netns, c)

\* the six node.cmd calls of lines 219-225, in order
LinkStepsUpFirst == <<"lo_up", "wlan_up", "pan", "add", "wlan_down", "lowpan_up">>

LinkSteps == <<"lo_up", "wlan_down", "pan", "add", "wlan_up", "lowpan_up">>

LinkCmd(step, n, panid) ==
    CASE step = "lo_up"     -> <<"ip link set", "lo", "up">>
      [] step = "wlan_down" -> <<"ip link set", Radio(n), "down">>
      [] step = "pan"       -> <<"iwpan dev", Radio(n), "set pan_id", panid>>
      [] step = "add"       -> <<"ip link add link", Radio(n), "name",
                                 LowpanName(n), "type lowpan">>
      [] step = "wlan_up"   -> <<"ip link set", Radio(n), "up">>
      [] OTHER              -> <<"ip link set", LowpanName(n), "up">>

\* sixLoWPANLink(node, **params): __init__ calls configIface, lines 210-217
configIface(n, panid, intfName, addr, ip) ==
    /\ lpos = 0
    /\ lcalls < MaxLinkCalls
    /\ lcalls' = lcalls + 1
    /\ lnode' = n
    /\ largs' = [panid |-> panid, intfName |-> intfName, addr |-> addr,
                 ip |-> ip]
    /\ lissued' = <<>>
    /\ lexc' = None
    /\ lpos' = 1
    /\ UNCHANGED << nsOf, links, cls_intf1, cls_intf2 >>
    /\ UNCHANGED << allocVars, intfVars >>

\* one node.cmd of lines 219-225; params['panid'] raises KeyError when the
\* caller gave no panid, before the command is run
link_cmd ==
    /\ lpos \in 1..Len(LinkSteps)
    /\ LET step == LinkSteps[lpos]
           c == LinkCmd(step, lnode, largs.panid)
       IN IF step = "pan" /\ largs.panid = None
          THEN /\ lexc' = "KeyError"
               /\ lpos' = 0
               /\ UNCHANGED << nsOf, lissued >>
          ELSE /\ nsOf' = [nsOf EXCEPT ![lnode] = LinkApply(@, c)]
               /\ lissued' = Append(lissued, c)
               /\ lpos' = lpos + 1
               /\ lexc' = lexc
    /\ UNCHANGED << lnode, largs, links, cls_intf1, cls_intf2, lcalls >>
    /\ UNCHANGED << allocVars, intfVars >>

\* wpanName, lines 246-250
wpanName(n, ifacename) == n \o "-" \o ifacename

\* lines 227-244: intfName1 is bound only when no intfName was given; the
\* handle is constructed with node, mac=addr, name, ip (panid and port go
\* to config's **_params) and the two ends are stored on the class cls
link_construct ==
    /\ lpos = Len(LinkSteps) + 1
    /\ lpos' = 0
    /\ IF largs.intfName # None
       THEN /\ lexc' = "UnboundLocalError"
            /\ UNCHANGED << nsOf, lissued, links, cls_intf1, cls_intf2 >>
       ELSE \E q \in {construct(nsOf[lnode], wpanName(lnode, "lowpan"), lnode,
                                largs.addr, largs.ip, None, "True")} :
               /\ nsOf' = [nsOf EXCEPT ![lnode] = q.s.os]
               /\ lissued' = lissued \o q.s.issued
               /\ lexc' = q.exc
               /\ IF q.exc = None
                  THEN /\ cls_intf1' = q.s.intf
                       /\ cls_intf2' = "6LoWPAN"
                       /\ links' = Append(links, [node |-> lnode])
                  ELSE UNCHANGED << links, cls_intf1, cls_intf2 >>
    /\ UNCHANGED << lnode, largs, lcalls >>
    /\ UNCHANGED << allocVars, intfVars >>

PanIds == {None, "0xbeef"}

NodeIps == {"2001::1/64", "2001::1"}

NextLink ==
    \/ \E n \in LinkNodes, panid \in PanIds, intfName \in {None, "wpan-x"},
          ip \in NodeIps :
          configIface(n, panid, intfName, None, ip)
    \/ link_cmd
    \/ link_construct

AllocNext ==
    \/ \E nl \in NodeLists, n \in RadioCounts, alt \in AltModules :
          start(nl, n, alt)
    \/ load_module_first
    \/ load_module_retry
    \/ load_module_external
    \/ \E names \in HwsimSets : create_hwsim_enter(names)
    \/ create_hwsim_iter
    \/ create_hwsim_return
    \/ get_virtual_wlan
    \/ \E nl \in NodeLists, own \in BOOLEAN : assign_iface(nl, own, SortWlans(pop(IwpanDevOutput(TRUE))))
    \/ assign_next_node
    \/ assign_slot
    \/ assign_return
    \/ stop
    \/ stop_remove_conf
    \/ stop_rmmod_ifb
    \/ stop_pkill_conf
    \/ stop_pkill_pid
    \/ kill_fakelb

Init == AllocInit /\ IntfInit /\ LinkInit(DefaultRadios)

Next == AllocNext

vars == << allocVars, intfVars, linkVars >>

Spec == Init /\ [][Next]_vars

\* stop is sequential code: each of its steps, once reached, is taken
SpecStop ==
    /\ Init /\ [][Next]_vars
    /\ WF_vars(stop_remove_conf) /\ WF_vars(stop_rmmod_ifb)
    /\ WF_vars(stop_pkill_conf) /\ WF_vars(stop_pkill_pid)
    /\ WF_vars(kill_fakelb)

\* the interface object alone: the allocator stays as one of its initial states
InitIntf == Init /\ ~externally_managed /\ ~loaded

NextIntf == IntfNext

SpecIntf == InitIntf /\ [][NextIntf]_vars

\* the link establishments alone, over nodes whose radio is down, up or
\* missing
InitLink ==
    /\ AllocInit /\ ~externally_managed /\ ~loaded
    /\ IntfInit
    /\ \E radios \in [LinkNodes -> RadioStates] : LinkInit(radios)

SpecLink == InitLink /\ [][NextLink]_vars

\* the prefix derivation alone, over more sets of existing names: a chain
\* of the first k group names, with or without names that do not belong to it
MaxChain == 12

GroupName(j) == "mn" \o (IF j < 10 THEN "0" ELSE "") \o Dec(j) \o "s"

ExtraNames == {"phy0", "mn00s01", "mn03s", "mn1s"}

PrefixInputs ==
    { {GroupName(j) : j \in 0..(k - 1)} \cup e :
         k \in 0..MaxChain, e \in SUBSET ExtraNames }

NextPrefix ==
    \/ \E nl \in NodeLists, n \in RadioCounts, alt \in AltModules :
          start(nl, n, alt)
    \/ load_module_first
    \/ \E names \in PrefixInputs : create_hwsim_enter(names)
    \/ create_hwsim_iter
    \/ create_hwsim_return

\* the loop is sequential code: a pass that can run does run
SpecPrefix == Init /\ [][NextPrefix]_vars /\ WF_vars(create_hwsim_iter)

(***************************************************************************)
(*                               Claims                                    *)
(***************************************************************************)
\* the (node, slot) pairs assign_iface serves, in iteration order
RECURSIVE PairsOf(_)
PairsOf(nl) ==
    IF nl = <<>> THEN <<>>
    ELSE (IF isolated(Head(nl))
          THEN [w \in 1..Len(wlanOf(Head(nl))) |-> <<Head(nl), w>>]
          ELSE <<>>) \o PairsOf(Tail(nl))

InAssign == pc = "assign" \/ (pc = "exited")

AssignDone == pc = "assign" /\ ni > Len(nodes)

\* C1: assignment is at-most-once. Throughout a run of assign_iface the
\* pool has lost exactly one entry per served (node, slot) pair, the pairs
\* served are the first pairs of the node list, each once, no device name and
\* no phy went to two pairs, and no served name is back in the pool; when
\* the run returns, every pair of the isolated nodes was served.
C1_AtMostOnce ==
    InAssign =>
       /\ Len(wlan_list) = Len(origPool) - Len(runLog)
       /\ [i \in 1..Len(runLog) |-> <<runLog[i].node, runLog[i].slot>>]
             = SubSeq(PairsOf(nodes), 1, Len(runLog))
       /\ NoDup([i \in 1..Len(runLog) |-> runLog[i].dev])
       /\ NoDup([i \in 1..Len(runLog) |-> runLog[i].phy])
       /\ \A i \in 1..Len(runLog) :
             /\ runLog[i].dev \notin Range(wlan_list)
             /\ devNs[runLog[i].phy] = runLog[i].node
       /\ AssignDone => Len(runLog) = Len(PairsOf(nodes))

C1_Witness ==
    /\ AssignDone
    /\ Len(PairsOf(nodes)) = 3
    /\ Len(origPool) = 11
    /\ Len(wlan_list) = 8

C2_Inv ==
    /\ \A i, j \in 1..Len(idLog) : i < j => idLog[i] < idLog[j]
    /\ \A i \in 1..Len(idLog) : idLog[i] < phyID
    /\ \A i, j \in 1..Len(runLog) : i < j => runLog[i].id < runLog[j].id
    /\ \A n \in NodeNames : \A w \in DOMAIN nodePhyID[n] :
          nodePhyID[n][w] \in Range(idLog)
    /\ \A n1, n2 \in NodeNames :
          \A w1 \in DOMAIN nodePhyID[n1], w2 \in DOMAIN nodePhyID[n2] :
             <<n1, w1>> # <<n2, w2>> => nodePhyID[n1][w1] # nodePhyID[n2][w2]

\* C2: the ids recorded for the (node, slot) pairs, over all the calls of the
\* process, are strictly increasing in the order they were recorded, so
\* pairwise distinct, all below the counter, and the counter never goes down.
C2_PhyIdMonotone == [] C2_Inv /\ [][phyID' >= phyID]_vars

\* ids of two assignment runs with a stop in between
C2_Witness ==
    /\ Len(idLog) >= 4
    /\ stopLog # <<>>
    /\ AssignDone
    /\ Len(runLog) >= 1

\* C4: a first Start whose discovered pool has a device for every pair does
\* not exit, hands the k-th pair the device that carried the k-th name of
\* the discovered ordering, renamed to the name the pair asked for, and
\* leaves the pool shorter by the number of pairs.
C4_EndToEnd ==
    (viaStart /\ calls = 1 /\ InAssign
       /\ Len(origPool) >= Len(PairsOf(nodes))) =>
       /\ pc # "exited"
       /\ \A k \in 1..Len(runLog) :
             /\ runLog[k].dev = origPool[k]
             /\ runLog[k].head # {}
             /\ \A p \in runLog[k].head :
                   /\ devNs[p] = runLog[k].node
                   /\ devName[p] = wlanOf(runLog[k].node)[runLog[k].slot]
       /\ AssignDone => Len(wlan_list) = Len(origPool) - Len(PairsOf(nodes))

PrefixChosen == pc = "hwsim_loop" /\ numokay

C3_Inv ==
    PrefixChosen =>
       /\ prefix = GroupName(num)
       /\ \A i \in 1..Len(hwsimPhys) : ~StartsWith(hwsimPhys[i], prefix)
       /\ \A j \in 0..(num - 1) :
             \E i \in 1..Len(hwsimPhys) : StartsWith(hwsimPhys[i], GroupName(j))
       /\ hwsimPhys = <<"mn00s", "mn01s", "">> => prefix = "mn02s"

\* C3: for every set of existing names the loop ends, and the prefix it
\* leaves is "mn", the counter padded to two digits, "s", for the smallest
\* counter whose prefix starts no existing name; the names "mn00s" and
\* "mn01s" give "mn02s".
C3_PrefixDerivation ==
    /\ [] C3_Inv
    /\ (pc = "hwsim_loop") ~> PrefixChosen

\* the full chain, past a two-digit counter, was walked
C3_Witness ==
    /\ PrefixChosen
    /\ num = MaxChain
    /\ "mn00s01" \in Range(hwsimPhys)
    /\ prefix = GroupName(MaxChain)

\* number of '/' in a string
SlashCount(str) == Cardinality({i \in 1..Len(str) : CharAt(str, i) = "/"})

SetIPBare(c) ==
    c.op = "setIP" /\ SlashCount(c.args[1]) = 0 /\ c.args[2] = None

\* C5: setIP with an address without '/' and without a prefix length fails,
\* leaves ip and prefixLen as they were, and issues no command.
C5_SetIPMissingPrefix ==
    [][SetIPBare(lastCall') =>
          /\ outcome' # None
          /\ intf'.ip = intf.ip
          /\ intf'.prefixLen = intf.prefixLen
          /\ issued' = <<>>]_vars

\* a handle that carries an address refused a bare address
C5_Witness ==
    /\ SetIPBare(lastCall)
    /\ lastCall.args[1] = "10.0.0.1"
    /\ outcome = "Exception"
    /\ intf.ip = "2001::1"
    /\ intf.prefixLen = "64"

SetIPSplit(c) == c.op = "setIP" /\ SlashCount(c.args[1]) = 1

SetIPExplicit(c) ==
    c.op = "setIP" /\ SlashCount(c.args[1]) = 0 /\ c.args[2] # None

\* C6: after setIP of "addr/len", with or without a prefixLen argument, ip
\* is the part before the '/' and prefixLen the part after it
\* ("10.0.0.1/24": "10.0.0.1" and "24"); after setIP of a string without
\* '/' and a prefixLen p, ip is the string and prefixLen is p.
C6_SetIPSplit ==
    /\ SetIPSplit(lastCall) =>
          /\ outcome = None
          /\ lastCall.args[1] = intf.ip \o "/" \o intf.prefixLen
          /\ SlashCount(intf.ip) = 0
          /\ lastCall.args[1] = "10.0.0.1/24" =>
                intf.ip = "10.0.0.1" /\ intf.prefixLen = "24"
    /\ SetIPExplicit(lastCall) =>
          /\ outcome = None
          /\ intf.ip = lastCall.args[1]
          /\ intf.prefixLen = lastCall.args[2]

\* the string's prefix length won over an explicit one
C6_Witness ==
    /\ lastCall.op = "setIP"
    /\ lastCall.args = <<"10.0.0.1/24", PyInt(8)>>
    /\ intf.ip = "10.0.0.1"
    /\ intf.prefixLen = "24"

\* C7: on a constructed handle, an ip that is not empty comes with a
\* prefixLen that is not empty.
C7_IpHasPrefixLen ==
    (live = "ok" /\ intf.ip \notin {None, ""}) =>
        intf.prefixLen \notin {None, ""}

\* C8: a handle constructed with the name "lo" has ip "127.0.0.1" and
\* prefixLen 8, and its construction issued no command on the owning node.
C8_LoopbackConstruct ==
    (lastCall.op = "construct" /\ lastCall.args[1] = "lo") =>
       /\ outcome = None
       /\ intf.ip = "127.0.0.1"
       /\ intf.prefixLen = PyInt(8)
       /\ issued = <<>>

\* C9: config with mac, ip and ipAddr absent and up true issues only the
\* command that sets the link up and returns a mapping with the one key "up".
C9_ConfigDefaults ==
    (lastCall.op = "config" /\ lastCall.args = <<None, None, None, "True">>) =>
       /\ outcome = None
       /\ issued = << <<"ip link set", intf.name, "up">> >>
       /\ Len(retval) = 1
       /\ retval[1][1] = "up"

RenameTo(c, n) == c.op = "rename" /\ c.args = <<n>>

\* C10: rename to the name the handle already has issues down, the rename
\* to the same name, and up, and leaves name, ip, prefixLen and mac as they
\* were; a second rename to the same name right after a first leaves the
\* handle and the device as the first left them.
C10_RenameIdempotent ==
    [][/\ RenameTo(lastCall', intf.name) =>
             /\ outcome' = None
             /\ issued' = << <<"ip link set", intf.name, "down">>,
                             <<"ip link set", intf.name, "name", intf.name>>,
                             <<"ip link set", intf.name, "up">> >>
             /\ intf' = intf
       /\ (lastCall.op = "rename" /\ lastCall' = lastCall) =>
             /\ intf' = intf
             /\ os' = os]_vars

\* a same-name rename on a handle that carries an address
C10_Witness ==
    /\ RenameTo(lastCall, "sta1-lowpan")
    /\ Len(issued) = 3
    /\ issued[2] = <<"ip link set", "sta1-lowpan", "name", "sta1-lowpan">>
    /\ intf.ip = "2001::1"
    /\ intf.mac = "00:00:00:00:00:01"

\* C11: assign_iface is fail-fast. A slot that starts on an empty pool ends
\* the process; the step that ends it serves no pair and leaves the pool and
\* the loop position where they were; the ended process never returns or
\* serves again; in it the pairs served are a strict initial segment of the
\* pairs asked for and no served device is back in the pool; and a run that
\* asks for more pairs than the pool holds never returns.
C11_FailFast ==
    /\ [] (pc = "exited" =>
             /\ Len(runLog) < Len(PairsOf(nodes))
             /\ Len(wlan_list) = Len(origPool) - Len(runLog)
             /\ \A i \in 1..Len(runLog) : runLog[i].dev \notin Range(wlan_list))
    /\ [] ((InAssign /\ Len(PairsOf(nodes)) > Len(origPool)) => ~AssignDone)
    /\ [][/\ (SlotPending /\ wlan_list = <<>>) => pc' = "exited"
          /\ (pc = "assign" /\ pc' = "exited") =>
                /\ wlan_list' = wlan_list
                /\ runLog' = runLog
                /\ <<ni', wi'>> = <<ni, wi>>
          /\ pc = "exited" => pc' = "exited"
          /\ pc = "assign" => pc' \in {"assign", "exited", "idle"}
          /\ (pc = "assign" /\ pc' = "idle") => AssignDone]_vars

\* two devices for three pairs: the third pair ended the process
C11_Witness ==
    /\ pc = "exited"
    /\ viaStart
    /\ Len(origPool) = 2
    /\ Len(runLog) = 2
    /\ Len(PairsOf(nodes)) = 3
    /\ wlan_list = <<>>

StopPcs == {"stop_conf", "stop_ifb", "stop_wpa_c", "stop_wpa_p", "kill_fakelb"}

\* the steps of a whole stop, in order
StopRuns ==
    { <<"rm_conf", ifb, "pkill_c", "pkill_p", "rmmod_fakelb">> :
         ifb \in {"rmmod_ifb", "no_ifb"} }

StopReturned == pc = "idle" /\ stopLog \in StopRuns

\* C12: a stop that has begun reaches its return with the fakelb unload
\* done, whatever the earlier steps met; the unload is done once, as the
\* last step after the removal of the config files, the ifb unload and the
\* two pkill steps; and stop leaves only by returning.
C12_StopUnloads ==
    /\ (pc \in StopPcs) ~> StopReturned
    /\ [] (stopLog # <<>> =>
             /\ \E r \in StopRuns : stopLog = SubSeq(r, 1, Len(stopLog))
             /\ (pc = "kill_fakelb" <=> Len(stopLog) = 4)
             /\ (pc \notin StopPcs <=> stopLog \in StopRuns))
    /\ [][(pc \in StopPcs) => (pc' \in StopPcs \cup {"idle"})]_vars

\* a stop after an assignment, with the ifb module found loaded and the
\* fakelb unload refused
C12_Witness ==
    /\ StopReturned
    /\ stopLog[2] = "rmmod_ifb"
    /\ loaded
    /\ idLog # <<>>

LoadCmd == IF alternativeModule = "" THEN "modprobe" ELSE "insmod"

C13_Inv ==
    /\ Len(loadLog) <= 2
    /\ externally_managed => loadLog = <<>>
    /\ \A i \in 1..Len(loadLog) : loadLog[i].cmd = LoadCmd
    /\ pc = "load" => loadLog = <<>>
    /\ pc \in {"hwsim", "hwsim_loop"} =>
          IF externally_managed
          THEN loadLog = <<>> /\ devices_created_dynamically
          ELSE Len(loadLog) = 1 /\ loadLog[1].ok
    /\ pc = "load_retry" => Len(loadLog) = 1 /\ ~loadLog[1].ok
    /\ Len(loadLog) = 2 =>
          /\ ~loadLog[1].ok
          /\ loadLog[2].numlbs >= 1
          /\ loadLog[2].numlbs = n_radios
          /\ LoadCmd = "modprobe" =>
                loadLog[2].numlbs =
                   IF loadLog[1].numlbs = 0 THEN 1 ELSE loadLog[1].numlbs

\* C13: load_module makes no load attempt when externally managed (it sets
\* devices_created_dynamically and goes to the prefix derivation), and
\* otherwise one attempt, then the prefix derivation exactly when the
\* attempt succeeded, and after a failure one more attempt with a radio
\* count of at least 1, and then no other: it goes on to the discovery.
C13_LoadAttempts ==
    /\ [] C13_Inv
    /\ [][/\ pc = "load" =>
                /\ pc' \in {"load", "hwsim", "load_retry"}
                /\ pc' = "hwsim" <=>
                      (externally_managed \/ (Len(loadLog') = 1 /\ loadLog'[1].ok))
                /\ pc' = "load_retry" => Len(loadLog') = 1
          /\ pc = "load_retry" =>
                \/ pc' = "load_retry" /\ loadLog' = loadLog
                \/ pc' = "get_wlan" /\ Len(loadLog') = 2
          /\ Len(loadLog') > Len(loadLog) => pc \in {"load", "load_retry"}]_vars

\* a start with no radios asked for: the first modprobe failed, the second
\* asked for one radio and loaded it
C13_Witness ==
    /\ pc = "get_wlan"
    /\ Len(loadLog) = 2
    /\ loadLog[1].numlbs = 0
    /\ loadLog[2].numlbs = 1
    /\ loadLog[2].ok
    /\ loaded

IsSuffix(a, b) ==
    Len(a) <= Len(b) /\ a = SubSeq(b, Len(b) - Len(a) + 1, Len(b))

\* C14: the pool is always a suffix of the ordering the last
\* get_virtual_wlan produced, and inside a run the pool the run began with
\* less one leading entry per served pair; a step changes the pool only in
\* get_virtual_wlan or by dropping its head in a slot; and a device renamed
\* in a slot carried the name at index 0 of the pool as the slot began and
\* gets the name the slot asks for.
C14_PoolSuffix ==
    /\ [] IsSuffix(wlan_list, SortWlans(wlans))
    /\ [] (InAssign =>
             wlan_list = SubSeq(origPool, Len(runLog) + 1, Len(origPool)))
    /\ [][/\ wlan_list' # wlan_list =>
                \/ pc = "get_wlan"
                \/ /\ pc = "assign"
                   /\ wlan_list # <<>>
                   /\ wlan_list' = Tail(wlan_list)
                   /\ Len(runLog') = Len(runLog) + 1
                   /\ runLog'[Len(runLog')].dev = wlan_list[1]
          /\ pc = "assign" =>
                \A p \in DOMAIN devName :
                   devName'[p] # devName[p] =>
                      /\ wlan_list # <<>>
                      /\ devName[p] = wlan_list[1]
                      /\ devName'[p] = wlanOf(nodes[ni])[wi]
                      /\ wlan_list' = Tail(wlan_list)]_vars

\* two slots served from a discovery of eleven: the last nine names are
\* left, in the discovered order, and one device carries the name its slot
\* asked for
C14_Witness ==
    /\ pc = "assign"
    /\ Len(wlans) = 11
    /\ Len(runLog) = 2
    /\ wlan_list = SubSeq(SortWlans(wlans), 3, 11)
    /\ \E p \in DOMAIN devName : devName[p] = "sta1-wpan0"

\* a before b: shorter, or as long and lexicographically smaller
NameBefore(a, b) == Len(a) < Len(b) \/ (Len(a) = Len(b) /\ StrLess(a, b))

PoolOrdered(pool) ==
    \A i, j \in 1..Len(pool) : i < j => NameBefore(pool[i], pool[j])

RootNames == {devName[p] : p \in RootPhys}

\* C15: get_virtual_wlan leaves in the pool exactly the names of the
\* devices listed, each once, ordered by length and within a length
\* lexicographically; the pool stays so ordered, and within a run no pair is
\* served a name shorter than an earlier pair's.
C15_DiscoveryOrder ==
    /\ [] PoolOrdered(wlan_list)
    /\ [] \A i, j \in 1..Len(runLog) :
             i < j => NameBefore(runLog[i].dev, runLog[j].dev)
    /\ [][(pc = "get_wlan" /\ pc' = "assign") =>
             /\ Range(wlan_list') = RootNames
             /\ Len(wlan_list') = Cardinality(RootPhys)
             /\ Range(wlans') = RootNames
             /\ Len(wlans') = Cardinality(RootPhys)
             /\ wlan_list' = origPool']_vars

\* eleven devices listed newest first come out with wpan10 last
C15_Witness ==
    /\ pc = "assign"
    /\ Len(wlans) = 11
    /\ wlans[1] = "wpan10"
    /\ wlan_list = <<"wpan0", "wpan1", "wpan2", "wpan3", "wpan4", "wpan5",
                     "wpan6", "wpan7", "wpan8", "wpan9", "wpan10">>

\* C20: in a run made through start the list passed as phys is the pool
\* itself, and for every served pair the phy resolved and moved into the
\* node is the phy of the device that carried the pool's head name, which is
\* then in the node under the name the pair asked for; no phy is moved for
\* two pairs.
C20_PhyIsDevice ==
    (viaStart /\ InAssign) =>
       /\ physIsWlanList
       /\ NoDup([k \in 1..Len(runLog) |-> runLog[k].phy])
       /\ \A k \in 1..Len(runLog) :
             /\ runLog[k].head = {runLog[k].phy}
             /\ devNs[runLog[k].phy] = runLog[k].node
             /\ devName[runLog[k].phy] =
                   wlanOf(runLog[k].node)[runLog[k].slot]

SetIPReturned == lastCall.op = "setIP" /\ outcome = None

\* the address a setIP call hands to ip: the string itself, or the string,
\* '/', and the prefix length
SetIPAddress(c) ==
    IF SlashCount(c.args[1]) > 0 THEN c.args[1]
    ELSE c.args[1] \o "/" \o Str(c.args[2])

\* C16: a setIP that returns has issued the flush of the interface and then
\* the add of its address, and nothing else; the handle's ip and prefixLen
\* are the two parts of that address; and when the add reported no error
\* the interface holds that address and no other.
C16_SetIPReplaces ==
    SetIPReturned =>
       /\ issued = << <<"ip addr flush", intf.name>>,
                      <<"ip -6 addr add", SetIPAddress(lastCall), "dev",
                        intf.name>> >>
       /\ intf.ip \o "/" \o Str(intf.prefixLen) = SetIPAddress(lastCall)
       /\ retval = "" =>
             /\ intf.name \in DOMAIN os
             /\ os[intf.name].addrs = << SetIPAddress(lastCall) >>

\* an address given in two parts replaced the one the handle was
\* constructed with
C16_Witness ==
    /\ SetIPReturned
    /\ lastCall.args = <<"2001::2", "24">>
    /\ retval = ""
    /\ intf.name = "sta1-lowpan"
    /\ os["sta1-lowpan"].addrs = <<"2001::2/24">>
    /\ intf.ip = "2001::2"

\* the commands each step of config runs on the device n
AddCmds(n, a) == << <<"ip addr flush", n>>, <<"ip -6 addr add", a, "dev", n>> >>

MacCmds(n, m) ==
    IF m = None THEN <<>>
    ELSE << <<"ip link set", n, "down">>, <<"ip link set", n, "address", m>>,
            <<"ip link set", n, "up">> >>

UpCmds(n, u) ==
    IF u = None THEN <<>>
    ELSE IF u = "True" THEN << <<"ip link set", n, "up">> >>
    ELSE << <<"ip addr show", n>> >>

RawCmds(n, a) == IF a = None THEN <<>> ELSE AddCmds(n, a)

\* the keys of the parameters that were supplied, in the order of the calls
SuppliedKeys(mac_, ip_, ipAddr_, up_) ==
    (IF mac_ = None THEN <<>> ELSE <<"mac">>)
       \o (IF ip_ = None THEN <<>> ELSE <<"ip">>)
       \o (IF up_ = None THEN <<>> ELSE <<"up">>)
       \o (IF ipAddr_ = None THEN <<>> ELSE <<"ipAddr">>)

\* what a command on the device n answers during config: nothing when the
\* device is there
Answer(n) == IF n \in DOMAIN os THEN "" ELSE "Cannot find device"

ConfigValue(key, n) ==
    CASE key = "mac" -> Answer(n) \o Answer(n) \o Answer(n)
      [] key = "up" ->
            IF lastCall.args[4] = "True"
            THEN (IF n \in DOMAIN os THEN "True" ELSE "False")
            ELSE (IF n \in DOMAIN os /\ os[n].up THEN "True" ELSE "False")
      [] OTHER -> Answer(n)

LinkExpected(n, p) ==
    << <<"ip link set", "lo", "up">>,
       <<"ip link set", Radio(n), "down">>,
       <<"iwpan dev", Radio(n), "set pan_id", p>>,
       <<"ip link add link", Radio(n), "name", n \o "-lowpan", "type lowpan">>,
       <<"ip link set", Radio(n), "up">>,
       <<"ip link set", n \o "-lowpan", "up">> >>

LinkPrefixOk ==
    lnode # None =>
        \A k \in 1..Len(lissued) :
            k <= 6 => lissued[k] = LinkExpected(lnode, largs.panid)[k]

RadioIsUp(n) == Radio(n) \in DOMAIN nsOf[n] /\ nsOf[n][Radio(n)].up

\* a failed call leaves what its earlier steps did: after the KeyError of
\* the PAN step loopback is up and the radio down, after a failure past the
\* six commands the radio and the derived device are up
LinkNoRollback ==
    /\ lexc = "KeyError" =>
          /\ lissued = SubSeq(LinkExpected(lnode, largs.panid), 1, 2)
          /\ nsOf[lnode]["lo"].up
          /\ ~RadioIsUp(lnode)
    /\ (lexc \notin {None, "KeyError"}) =>
          /\ Len(lissued) >= 6
          /\ nsOf[lnode]["lo"].up
          /\ Radio(lnode) \in DOMAIN nsOf[lnode] =>
                /\ RadioIsUp(lnode)
                /\ (lnode \o "-lowpan") \in DOMAIN nsOf[lnode]
                /\ nsOf[lnode][lnode \o "-lowpan"].up

C17_Inv == LinkPrefixOk /\ LinkNoRollback

\* C17: configIface runs loopback up, radio down, PAN id, lowpan device on
\* the radio, radio up, lowpan up, in that order, and constructs the handle
\* only after the six; the PAN id is set only while the radio is down; a
\* failing step ends the call with every earlier step's effect and command
\* left as it was.
C17_LinkOrder ==
    /\ []C17_Inv
    /\ [][(lpos # 0) =>
            /\ Len(lissued') >= Len(lissued)
            /\ SubSeq(lissued', 1, Len(lissued)) = lissued]_vars
    /\ [][(Len(lissued') > Len(lissued)
            /\ lissued'[Len(lissued) + 1][1] = "iwpan dev") =>
            ~RadioIsUp(lnode)]_vars
    /\ [][(Len(lissued') > Len(lissued)
            /\ lissued'[Len(lissued) + 1][1] \notin
                  {"ip link set", "iwpan dev", "ip link add link"}) =>
            SubSeq(lissued, 1, 6) = LinkExpected(lnode, largs.panid)]_vars
    /\ [][(links' # links \/ cls_intf1' # cls_intf1) =>
            /\ Len(lissued) >= 6
            /\ SubSeq(lissued, 1, 6) = LinkExpected(lnode, largs.panid)]_vars
    /\ [][(lexc' # None /\ lexc = None /\ lpos <= 6) =>
            (nsOf' = nsOf /\ lissued' = lissued)]_vars

\* a link was established, and a later call without panid stopped at the
\* PAN step with loopback up and the radio down
C17_Witness ==
    /\ Len(links) >= 1
    /\ lexc = "KeyError"
    /\ Len(lissued) = 2
    /\ nsOf[lnode]["lo"].up
    /\ Radio(lnode) \in DOMAIN nsOf[lnode]
    /\ ~nsOf[lnode][Radio(lnode)].up

\* C18: the two ends of every established link are the handle constructed
\* for that link's node (named <node>-lowpan, owned by the node) and the tag
\* "6LoWPAN".
C18_LinkEnds ==
    \A k \in 1..Len(links) :
        /\ cls_intf1.name = links[k].node \o "-lowpan"
        /\ cls_intf1.node = links[k].node
        /\ cls_intf2 = "6LoWPAN"

=============================================================================
